---- MODULE Spec2Model ----
(***************************************************************************)
(* A model of packages/server/Server.js of remlog: the Express server that *)
(* ingests trace beacons (POST /trace, GET /tracer.jpg), hands them to the *)
(* configured transport and reads the transport's log file back            *)
(* (GET /, GET /logs.json, GET /logs/:id.json).                            *)
(*                                                                         *)
(* Every synchronous request handler is one action, from the first         *)
(* middleware to the response or to the point where the handler returns    *)
(* with a callback pending.  Each pending callback (fs.readFile's, the     *)
(* transport's completion callback, the store's write) is an action of its *)
(* own, so the interleavings of the event loop are the interleavings of    *)
(* the actions.                                                            *)
(*                                                                         *)
(* The packages @namics/remlog-scheme and @namics/remlog-transports are    *)
(* not part of the sources at hand; the Scheme, the transport's relay and  *)
(* the store behind saveTraceToLock are modelled from the specification.   *)
(***************************************************************************)
EXTENDS Integers, Sequences, FiniteSets, TLC

\* ------------------------------------------------------------------ bounds

\* POST /trace requests received in one behaviour of Spec.
MaxPost == 2

\* --------------------------------------------------------------- JS values

Undefined == "undefined"
Null == "null"
\* The message of "no error": the JSON null of the success body.
NullError == <<>>

\* JavaScript truthiness of the values the model uses (strings, undefined, null).
Truthy(v) == v \notin {Undefined, Null, ""}

Ids == {"a", "b"}
PayloadIds == Ids \cup {Undefined}
PayloadHosts == {Undefined, "spoofed.example"}
PayloadTimestamps == {Undefined, "2018-03-01T10:00:00.000Z"}
\* The remaining, opaque fields of a payload: of a shape the Scheme accepts or not.
PayloadMeta == {"wellformed", "malformed"}
Payloads == [id : PayloadIds, host : PayloadHosts,
             timestamp : PayloadTimestamps, meta : PayloadMeta]

\* req.headers['x-forwarded-for']: absent, present and empty, present.
ForwardedFor == {Undefined, "", "203.0.113.7"}
\* req.connection.remoteAddress: undefined once the socket is gone.
RemoteAddress == {Undefined, "10.0.0.5"}
\* The Origin header of a request.
Origins == {Undefined, "https://app.example"}

\* new Date().toISOString() at the time of the request.
Now == "now"

\* ------------------------------------------------------------ configuration

CORS_ALL_HOSTS_ENABLED == <<"*">>
ConsoleTransportId == "console"
GenericTransportId == "generic"
GENERIC_TRANSPORT_LOGFILE == "remlog.lock"

\* The config objects the model constructs a Server with: CORS open to all
\* hosts or restricted to a list, the transport left out or named.
CorsConfigs == {CORS_ALL_HOSTS_ENABLED, <<"https://app.example">>}
TransportConfigs == {Undefined, GenericTransportId}

\* config.cors left out: undefined, and no array.  A list holding undefined
\* alone stands for it, lists being comparable with lists only.
NoCorsList == <<Undefined>>

\* The ids the registry of @namics/remlog-transports knows, and one it does not.
KnownTransportIds == {ConsoleTransportId, GenericTransportId}
UnknownTransportId == "nosuch"

defaultConfig == [port |-> 8189, transport |-> ConsoleTransportId,
                  cors |-> CORS_ALL_HOSTS_ENABLED]

\* ------------------------------------------------------------------- state

VARIABLES
    config,       \* this.config
    transportId,  \* this.transportId; undefined before the constructor ran
    transport,    \* this.transport, the instance the constructor made
    file,         \* the file GENERIC_TRANSPORT_LOGFILE
    posts,        \* the trace requests received, in order of arrival
    other,        \* the latest request of another route
    queue,        \* the store's writer queue: saves accepted, not yet written
    alive         \* FALSE once an uncaught exception ended the process

vars == <<config, transportId, transport, file, posts, other, queue, alive>>

\* The states of the log file: absent, present with a JSON array, present with
\* content JSON.parse rejects.
FileAbsent == [exists |-> FALSE, parses |-> FALSE, logs |-> <<>>]
FileOf(logs) == [exists |-> TRUE, parses |-> TRUE, logs |-> logs]
FileCorrupt == [exists |-> TRUE, parses |-> FALSE, logs |-> <<>>]

NoRecord == [id |-> Null, host |-> Undefined, timestamp |-> Undefined]

\* ------------------------------------------------------------ responses

\* The two headers the last middleware of attachMiddleware sets.
RemLogHeaders == {"X-RemLog-Client", "X-RemLog-Server-Version"}

\* A response: the HTTP status, what the body is, the body's fields (error,
\* id, httpStatus; httpStatus 0 when the body has no such field), the records
\* of a listing or a single record, and the response's headers.
NoResponse ==
    [status |-> 0, kind |-> "none", error |-> NullError, id |-> Null,
     httpStatus |-> 0, body |-> <<>>, headers |-> {}]

Respond(status, kind, error, id, httpStatus, body, headers) ==
    [status |-> status, kind |-> kind, error |-> error, id |-> id,
     httpStatus |-> httpStatus, body |-> body, headers |-> headers]

\* A slip: the message leaves the id out.
NotFoundMessage_NoId(id) == <<"Logfile was not found">>

\* Error messages, as the sequence of their parts.
NotFoundMessage(id) == <<"Logfile with ID", id, "was not found">>
ENOENTMessage == <<"ENOENT: no such file or directory, open", GENERIC_TRANSPORT_LOGFILE>>
CorsMessage(origin) == <<"Origin", origin, "not allowed by CORS policy">>
BodyParseMessage == <<"Unexpected token in JSON">>
QueryParseMessage == <<"Unexpected token o in JSON at position 1">>
SchemeMessage == <<"Invalid trace payload">>
RelayMessage == <<"Transport failed to relay">>
SaveMessage == <<"Transport failed to save">>

\* The shared error handler: the 500 envelope {timestamp, error, httpStatus}.
ErrorHandler(message, headers) ==
    Respond(500, "json", message, Null, 500, <<>>, headers)

\* ------------------------------------------------------------ middleware

\* The cors() middleware configured by attachMiddleware: open when the config
\* is no array or is ['*'], else the origin must be on the list.
CorsRejects(cors, origin) ==
    /\ cors # NoCorsList
    /\ cors # CORS_ALL_HOSTS_ENABLED
    /\ \A k \in 1..Len(cors) : cors[k] # origin

\* The chain helmet, cors, compression, body parsers, header setter, for one
\* request: where it ends.  "route" when the request reaches the router.
Middleware(cors, method, origin, bodyParses) ==
    IF CorsRejects(cors, origin) THEN "corsError"
    ELSE IF method = "OPTIONS" THEN "preflight"
    ELSE IF ~bodyParses THEN "bodyError"
    ELSE "route"

\* The response of a request the middleware chain ended: the header setter
\* was not reached.
MiddlewareResponse(outcome, origin) ==
    CASE outcome = "corsError" -> ErrorHandler(CorsMessage(origin), {})
      [] outcome = "bodyError" -> ErrorHandler(BodyParseMessage, {})
      [] outcome = "preflight" -> Respond(204, "empty", NullError, Null, 0, <<>>, {})

\* ------------------------------------------------------------- trace()

\* A slip: the operands in the other order.
TraceHost_RemoteFirst(xff, remote) == IF Truthy(remote) THEN remote ELSE xff

\* payload.host = req.headers['x-forwarded-for'] || req.connection.remoteAddress
TraceHost(xff, remote) == IF Truthy(xff) THEN xff ELSE remote

\* payload.timestamp = payload.timestamp || new Date().toISOString()
TraceTimestamp(timestamp) == IF Truthy(timestamp) THEN timestamp ELSE Now

\* new Scheme(payload): throws on a payload of the wrong shape or without id.
SchemeThrows(payload) == payload.meta = "malformed" \/ ~Truthy(payload.id)

\* new Scheme(payload).get(): the canonical record.
SchemeGet(payload) ==
    [id |-> payload.id, host |-> payload.host, timestamp |-> payload.timestamp]

\* The value trace() hands to its continuation on failure: {id: null, error: e}.
Failure(message) == [id |-> Null, error |-> message]
\* The value trace() hands to its continuation on success: the record.
Success(record) == [id |-> record.id, error |-> NullError]

\* A slip: the callback saves the payload as it arrived, not the record.
RelayCallback_RawPayload(payload, record) ==
    [id |-> payload.id, host |-> payload.host, timestamp |-> payload.timestamp]

\* The callback trace() gives to transport.trace: what it calls
\* saveTraceToLock with, of the payload trace() was called with and the
\* record the Scheme returned.
RelayCallback(payload, record) == record

\* How the continuation behaves when it sends the response: it returns
\* ("ok"), it throws the first time it is called and returns the next
\* ("once"), it throws every time ("always").
SendModes == {"ok", "once", "always"}
SendThrows(send, call) == send = "always" \/ (send = "once" /\ call = 1)
SendMessage == <<"Failed to send the response">>

\* A slip: the relay and the save do not wait for the Scheme.
Trace_RelaysUnvalidated(payload, xff, remote, relay, save, send) ==
    LET normal == [payload EXCEPT !.host = TraceHost(xff, remote),
                                  !.timestamp = TraceTimestamp(payload.timestamp)]
        record == SchemeGet(normal)
    IN  [args |-> <<IF SchemeThrows(normal) THEN Failure(SchemeMessage)
                    ELSE Success(record)>>,
         answered |-> 1, record |-> record, validated |-> ~SchemeThrows(normal),
         relay |-> "done", save |-> "queued"]

\* A slip: saveTraceToLock is called next to transport.trace, not from its
\* callback.
Trace_SavesAtOnce(payload, xff, remote, relay, save, send) ==
    LET normal == [payload EXCEPT !.host = TraceHost(xff, remote),
                                  !.timestamp = TraceTimestamp(payload.timestamp)]
        record == SchemeGet(normal)
    IN  IF SchemeThrows(normal)
        THEN [args |-> <<Failure(SchemeMessage)>>, answered |-> 1,
              record |-> NoRecord, validated |-> FALSE,
              relay |-> "none", save |-> "none"]
        ELSE [args |-> <<Success(record)>>, answered |-> 1,
              record |-> record, validated |-> TRUE,
              relay |-> IF relay = "sync" THEN "done" ELSE "pending",
              save |-> "queued"]

\* trace(payload, req, res, next) up to its return: the arguments next was
\* called with, one per call, the call that sent the response (0 when every
\* call threw and the exception left trace()), the record handed to the
\* transport, whether the Scheme accepted the payload, and how far relay and
\* save went.  relay: how transport.trace behaves ("sync": it calls the
\* callback before it returns, "async": later, "throws"); save: how
\* saveTraceToLock behaves when the callback runs inside transport.trace;
\* send: how the continuation behaves.
Trace(payload, xff, remote, relay, save, send) ==
    LET normal == [payload EXCEPT !.host = TraceHost(xff, remote),
                                  !.timestamp = TraceTimestamp(payload.timestamp)]
        record == SchemeGet(normal)
        \* the try block up to next(payload): the exception it throws, if any
        thrown == IF SchemeThrows(normal) THEN SchemeMessage
                  ELSE IF relay = "throws" THEN RelayMessage
                  ELSE IF relay = "sync" /\ save = "throws" THEN SaveMessage
                  ELSE NullError
        \* next(payload), when the try block got there
        inTry == IF thrown = NullError THEN <<Success(record)>> ELSE <<>>
        caught == IF thrown # NullError THEN thrown
                  ELSE IF SendThrows(send, 1) THEN SendMessage
                  ELSE NullError
        \* next({id: null, error: e}) of the catch block
        args == IF caught = NullError THEN inTry
                ELSE Append(inTry, Failure(caught))
    IN  [args |-> args,
         answered |-> IF SendThrows(send, Len(args)) THEN 0 ELSE Len(args),
         record |-> IF SchemeThrows(normal) THEN NoRecord ELSE record,
         validated |-> ~SchemeThrows(normal),
         relay |-> CASE SchemeThrows(normal) -> "none"
                     [] relay = "throws" -> "threw"
                     [] relay = "async" -> "pending"
                     [] OTHER -> "done",
         save |-> CASE SchemeThrows(normal) \/ relay # "sync" -> "none"
                    [] save = "throws" -> "threw"
                    [] OTHER -> "queued"]

\* The continuation POST /trace gives to trace(): the success body, whatever
\* the argument.
PostTraceContinuation(arg, headers) ==
    Respond(200, "json", NullError, arg.id, 200, <<>>, headers)

\* The continuation GET /tracer.jpg gives to trace(): the pixel, whatever the
\* argument.
TracerContinuation(arg, headers) ==
    Respond(200, "image", NullError, Null, 0, <<>>, headers \cup {"Content-Type"})

\* The response of a route that called trace(): that of the call of the
\* continuation that returned; when none did, the exception left the route
\* handler and Express handed it to the error handler.
TraceResponse(route, t, headers) ==
    IF t.answered = 0 THEN ErrorHandler(SendMessage, headers)
    ELSE IF route = "POST /trace"
         THEN PostTraceContinuation(t.args[t.answered], headers)
         ELSE TracerContinuation(t.args[t.answered], headers)

\* --------------------------------------------------------------- store

\* loadAll of the store: the entries, none when the file is absent or unreadable.
LoadAll(f) == IF f.exists /\ f.parses THEN f.logs ELSE <<>>

\* save of the store: insert, or overwrite the entry of the same id in place.
Upsert(logs, record) ==
    IF \E k \in 1..Len(logs) : logs[k].id = record.id
    THEN [k \in 1..Len(logs) |-> IF logs[k].id = record.id THEN record ELSE logs[k]]
    ELSE Append(logs, record)

\* ---------------------------------------------------------- read routes

\* An uncaught exception in a callback: no response, the process ends.
Uncaught == [NoResponse EXCEPT !.kind = "uncaught"]

\* A slip: the route hands the error of fs.readFile to the error handler, as
\* the other read routes do.
IndexCallback_ErrNext(f, headers) ==
    IF ~f.exists THEN ErrorHandler(ENOENTMessage, headers)
    ELSE IF ~f.parses THEN Uncaught
    ELSE Respond(200, "html", NullError, Null, 0, f.logs, headers)

\* GET /: the callback of fs.readFile.
IndexCallback(f, headers) ==
    IF ~f.exists THEN Respond(200, "html", NullError, Null, 0, <<>>, headers)
    ELSE IF ~f.parses THEN Uncaught
    ELSE Respond(200, "html", NullError, Null, 0, f.logs, headers)

\* A slip: the route answers with the first entry only.
LogsJsonCallback_FirstOnly(f, headers) ==
    IF ~f.exists THEN ErrorHandler(ENOENTMessage, headers)
    ELSE IF ~f.parses THEN Uncaught
    ELSE Respond(200, "json", NullError, Null, 0,
                 IF f.logs = <<>> THEN <<>> ELSE <<f.logs[1]>>, headers)

\* GET /logs.json: the callback of fs.readFile.
LogsJsonCallback(f, headers) ==
    IF ~f.exists THEN ErrorHandler(ENOENTMessage, headers)
    ELSE IF ~f.parses THEN Uncaught
    ELSE Respond(200, "json", NullError, Null, 0, f.logs, headers)

\* A slip: = for ===, so that every entry is selected and the last one stays.
Selected_Assigns(logs, id) ==
    IF logs = <<>> THEN <<>> ELSE <<logs[Len(logs)]>>

\* logs.forEach(...): the last entry whose id is the parameter, if any.
Selected(logs, id) ==
    LET hits == {k \in 1..Len(logs) : logs[k].id = id}
    IN  IF hits = {} THEN <<>>
        ELSE <<logs[CHOOSE k \in hits : \A h \in hits : h <= k]>>

\* GET /logs/:id.json: the callback of fs.readFile.
LogByIdCallback(f, id, headers) ==
    IF ~f.exists THEN ErrorHandler(ENOENTMessage, headers)
    ELSE IF ~f.parses THEN Uncaught
    ELSE LET selected == Selected(f.logs, id)
         IN  IF selected = <<>>
             THEN ErrorHandler(NotFoundMessage(id), headers)
             ELSE Respond(200, "json", NullError, selected[1].id, 0, selected, headers)

\* GET /info
InfoResponse(headers) == Respond(200, "text", NullError, Null, 0, <<>>, headers)

\* GET /tracer.jpg: JSON.parse(decodeURIComponent(req.query)) on the query
\* object Express parsed, which is the text "[object Object]": it throws
\* before trace() is called, and Express hands the error to the error handler.
TracerResponse(headers) == ErrorHandler(QueryParseMessage, headers)

\* ------------------------------------------------------------- requests

\* A request: its route and inputs (payload: the body of a POST; param:
\* req.params.id; xff, remote: what the server observed of the client), where
\* the middleware chain ended, what the Scheme said, the record trace() handed
\* to the transport, how far the relay and the save of that record are,
\* how often trace() called its continuation (calls), whether the request
\* still waits for a callback (pc), and the response.
\* History kept for the properties.  wrote: 0, or the position of the
\* request's write among the completed writes.  acked: whether, when the
\* request arrived, a POST /trace with the requested id had been answered
\* with the success body.  snapshot, seen: when fs.readFile read the log file
\* for the request, the file, and per id the record of the latest completed
\* write.
NoPayload == [id |-> Undefined, host |-> Undefined, timestamp |-> Undefined,
              meta |-> "wellformed"]

NewRequest(route) ==
    [route |-> route, payload |-> NoPayload, param |-> Null,
     xff |-> Undefined, remote |-> Undefined,
     mw |-> "route", scheme |-> "none", record |-> NoRecord,
     relay |-> "none", save |-> "none", calls |-> 0, pc |-> "done", wrote |-> 0,
     acked |-> FALSE, snapshot |-> FileAbsent, seen |-> {}, resp |-> NoResponse]

\* No request of another route yet.
NoRequest == [NewRequest("none") EXCEPT !.pc = "none"]

\* How the configured transport may relay: the console transport echoes and
\* calls back at once.
RelayModes(id) ==
    IF id = ConsoleTransportId THEN {"sync"} ELSE {"sync", "async", "throws"}

\* constructor: the transport named by the config, the console transport
\* when none is.
ResolveTransportId(cfg) ==
    IF Truthy(cfg.transport) THEN cfg.transport ELSE defaultConfig.transport

\* this.transport before new SelectedTransport() was assigned to it.
NoTransport == [id |-> Undefined]

\* getTransport(id) of the registry: the class of a known id, undefined for
\* any other.
GetTransport(id) == IF id \in KnownTransportIds THEN id ELSE Undefined

ReferenceErrorMessage == <<"getTransportNameFromId is not defined">>
JoinMessage == <<"Cannot read property 'join' of undefined">>
NotAConstructorMessage == <<"SelectedTransport is not a constructor">>

\* constructor(config): the fields it assigned and the exception it threw,
\* if any.  helper: whether getTransportNameFromId, which Server.js neither
\* defines nor imports, is a global some other module defined.
Constructor(cfg, helper) ==
    LET id == ResolveTransportId(cfg)
        threw == IF ~helper THEN ReferenceErrorMessage
                 ELSE IF cfg.cors = NoCorsList THEN JoinMessage
                 ELSE IF GetTransport(id) = Undefined THEN NotAConstructorMessage
                 ELSE NullError
    IN  [transportId |-> id,
         transport |-> IF threw = NullError THEN [id |-> GetTransport(id)]
                       ELSE NoTransport,
         threw |-> threw]

\* The state after new Server(config), for a config and a log file out of
\* the given sets.
InitOf(corsConfigs, files) ==
    /\ config \in [cors : corsConfigs, transport : TransportConfigs]
    /\ transportId = Constructor(config, TRUE).transportId
    /\ transport = Constructor(config, TRUE).transport
    /\ file \in files
    /\ posts = <<>>
    /\ other = NoRequest
    /\ queue = <<>>
    /\ alive = TRUE

\* new Server(config): an exception of the constructor is the caller's, and
\* ends the process before the server listens.
Construct ==
    /\ alive
    /\ transportId = Undefined
    /\ \E helper \in BOOLEAN :
          LET c == Constructor(config, helper)
          IN  /\ transportId' = c.transportId
              /\ transport' = c.transport
              /\ alive' = (c.threw = NullError)
    /\ UNCHANGED <<config, file, posts, other, queue>>

\* The request of a route that called trace(), and the save its callback
\* queued when it ran inside transport.trace.
Traced(route, payload, xff, remote, t) ==
    [NewRequest(route) EXCEPT
        !.payload = payload, !.xff = xff, !.remote = remote,
        !.scheme = IF t.validated THEN "passed" ELSE "threw",
        !.record = t.record, !.relay = t.relay, !.save = t.save,
        !.calls = Len(t.args),
        !.resp = TraceResponse(route, t, RemLogHeaders)]

Queued(payload, t, n) ==
    IF t.save = "queued"
    THEN Append(queue, [req |-> n, record |-> RelayCallback(payload, t.record)])
    ELSE queue

\* POST /trace, from the first middleware to the return of the route handler,
\* for a payload, a client and a transport behaviour out of the given sets.
PostTraceOf(payloads, xffs, remotes, origins, bodies, relays, saves, sends) ==
    /\ alive
    /\ \E origin \in origins, bodyParses \in bodies :
          LET outcome == Middleware(config.cors, "POST", origin, bodyParses)
          IN  IF outcome # "route"
              THEN /\ posts' = Append(posts, [NewRequest("POST /trace") EXCEPT
                                  !.mw = outcome,
                                  !.resp = MiddlewareResponse(outcome, origin)])
                   /\ UNCHANGED <<config, transportId, transport, file, other, queue, alive>>
              ELSE \E payload \in payloads, xff \in xffs, remote \in remotes,
                      relay \in relays, send \in sends :
                   \E save \in IF relay = "sync" THEN saves ELSE {"ok"} :
                      LET t == Trace(payload, xff, remote, relay, save, send)
                      IN  /\ posts' = Append(posts,
                                  Traced("POST /trace", payload, xff, remote, t))
                          /\ queue' = Queued(payload, t, Len(posts) + 1)
                          /\ UNCHANGED <<config, transportId, transport, file, other, alive>>

\* req.query of GET /tracer.jpg?<urlencoded-json>: the object Express' query
\* parser made of the query string, whatever the string was.
ReqQuery(payload) == [type |-> "object", json |-> payload]

\* decodeURIComponent(v): v converted to a string, its escapes decoded.  An
\* object converts to the text "[object Object]".
DecodeURIComponent(v) ==
    IF v.type = "object" THEN [type |-> "text", text |-> "[object Object]"]
    ELSE [type |-> "text", text |-> v.json]

\* JSON.parse(text) throws on a text that is not JSON.
JsonParseThrows(v) == v.text = "[object Object]"

\* GET /tracer.jpg, from the first middleware to the return of the route
\* handler: the query is parsed, and trace() called with the payload and the
\* continuation of the route.  An exception of the handler is Express' to
\* hand to the error handler.
GetTracerOf(payloads, xffs, remotes, origins, relays, saves, sends) ==
    /\ alive
    /\ \E origin \in origins :
          LET outcome == Middleware(config.cors, "GET", origin, TRUE)
          IN  IF outcome # "route"
              THEN /\ posts' = Append(posts, [NewRequest("GET /tracer.jpg") EXCEPT
                                  !.mw = outcome,
                                  !.resp = MiddlewareResponse(outcome, origin)])
                   /\ UNCHANGED <<config, transportId, transport, file, other, queue, alive>>
              ELSE \E payload \in payloads, xff \in xffs, remote \in remotes :
                   IF JsonParseThrows(DecodeURIComponent(ReqQuery(payload)))
                   THEN /\ posts' = Append(posts, [NewRequest("GET /tracer.jpg") EXCEPT
                                  !.payload = payload, !.xff = xff, !.remote = remote,
                                  !.resp = TracerResponse(RemLogHeaders)])
                        /\ UNCHANGED <<config, transportId, transport, file, other, queue, alive>>
                   ELSE \E relay \in relays, send \in sends :
                        \E save \in IF relay = "sync" THEN saves ELSE {"ok"} :
                           LET t == Trace(payload, xff, remote, relay, save, send)
                           IN  /\ posts' = Append(posts,
                                      Traced("GET /tracer.jpg", payload, xff, remote, t))
                               /\ queue' = Queued(payload, t, Len(posts) + 1)
                               /\ UNCHANGED <<config, transportId, transport, file, other, alive>>

\* The transport calls the callback of a relay that did not complete inside
\* transport.trace: saveTraceToLock is called.  When it throws, the exception
\* is the transport's to catch; uncaught, it ends the process.
RelayDoneOf(saves) ==
    /\ alive
    /\ \E i \in DOMAIN posts, save \in saves :
          /\ posts[i].relay = "pending"
          /\ IF save = "ok"
             THEN /\ posts' = [posts EXCEPT ![i].relay = "done", ![i].save = "queued"]
                  /\ queue' = Append(queue, [req |-> i,
                                             record |-> RelayCallback(posts[i].payload,
                                                                     posts[i].record)])
                  /\ alive' = alive
             ELSE /\ posts' = [posts EXCEPT ![i].relay = "done", ![i].save = "threw"]
                  /\ queue' = queue
                  /\ alive' \in BOOLEAN
    /\ UNCHANGED <<config, transportId, transport, file, other>>

NumWritten == Cardinality({j \in DOMAIN posts : posts[j].wrote > 0})

\* The requests whose save the store is writing.
Writing == {j \in DOMAIN posts : posts[j].save = "writing"}

\* A slip: every save is written as it comes, whatever is being written.
Writable_NoWriter(q) == {k \in DOMAIN q : posts[q[k].req].save = "queued"}

\* The saves of the queue whose write may begin: the store's single writer
\* takes the oldest, once the write before it is over.
Writable(q) ==
    {k \in DOMAIN q : k = 1 /\ posts[q[k].req].save = "queued" /\ Writing = {}}

\* The store begins to write a save it accepted.
StoreBegin ==
    /\ alive
    /\ \E k \in Writable(queue) :
          posts' = [posts EXCEPT ![queue[k].req].save = "writing"]
    /\ UNCHANGED <<config, transportId, transport, file, other, queue, alive>>

\* The write of a save ends: the log file holds the record, or the write
\* failed and the file is as it was.
StoreWrite ==
    /\ alive
    /\ \E k \in DOMAIN queue, ok \in BOOLEAN :
          LET w == queue[k]
          IN  /\ posts[w.req].save = "writing"
              /\ queue' = SubSeq(queue, 1, k - 1) \o SubSeq(queue, k + 1, Len(queue))
              /\ IF ok
                 THEN /\ file' = FileOf(Upsert(LoadAll(file), w.record))
                      /\ posts' = [posts EXCEPT ![w.req].save = "written",
                                                ![w.req].wrote = NumWritten + 1]
                 ELSE /\ file' = file
                      /\ posts' = [posts EXCEPT ![w.req].save = "failed"]
    /\ UNCHANGED <<config, transportId, transport, other, alive>>

\* Whether a POST /trace with this id has been answered with the success body.
Acked(id) ==
    \E j \in DOMAIN posts : posts[j].resp.status = 200 /\ posts[j].resp.id = id

\* Per id, the record handed to the transport whose write was completed last.
LatestWritten ==
    {posts[j].record : j \in {j \in DOMAIN posts :
        /\ posts[j].wrote > 0
        /\ \A k \in DOMAIN posts :
              posts[k].record.id = posts[j].record.id => posts[k].wrote <= posts[j].wrote}}

\* A request of another route arrives once the one before it is answered.
\* The middleware chain ends it, or the route handler runs: answer is the
\* response of a handler that answers at once, NoResponse that of a handler
\* that calls fs.readFile and returns.
OtherRequest(route, method, param, origins, answer) ==
    /\ alive
    /\ other.pc # "reading"
    /\ \E origin \in origins :
          LET outcome == Middleware(config.cors, method, origin, TRUE)
          IN  other' = IF outcome # "route"
                       THEN [NewRequest(route) EXCEPT
                                !.param = param, !.mw = outcome,
                                !.resp = MiddlewareResponse(outcome, origin)]
                       ELSE [NewRequest(route) EXCEPT
                                !.param = param, !.acked = Acked(param),
                                !.pc = IF answer = NoResponse THEN "reading" ELSE "done",
                                !.resp = answer]
    /\ UNCHANGED <<config, transportId, transport, file, posts, queue, alive>>

GetIndexOf(origins) == OtherRequest("GET /", "GET", Null, origins, NoResponse)
GetLogsJsonOf(origins) == OtherRequest("GET /logs.json", "GET", Null, origins, NoResponse)
GetLogByIdOf(origins) ==
    \E id \in Ids : OtherRequest("GET /logs/:id.json", "GET", id, origins, NoResponse)
GetInfoOf(origins) ==
    OtherRequest("GET /info", "GET", Null, origins, InfoResponse(RemLogHeaders))
\* A CORS preflight: the cors middleware answers it or rejects its origin.
PreflightOf(origins) ==
    OtherRequest("OPTIONS", "OPTIONS", Null, origins, NoResponse)

\* The callback of the route's fs.readFile, by route.
ReadCallback(r, f) ==
    CASE r.route = "GET /" -> IndexCallback(f, RemLogHeaders)
      [] r.route = "GET /logs.json" -> LogsJsonCallback(f, RemLogHeaders)
      [] r.route = "GET /logs/:id.json" -> LogByIdCallback(f, r.param, RemLogHeaders)

\* fs.readFile calls back: the route answers, or throws in the callback.
ReadDone ==
    /\ alive
    /\ other.pc = "reading"
    /\ LET resp == ReadCallback(other, file)
       IN  IF resp = Uncaught
           THEN /\ other' = [other EXCEPT !.pc = "lost"]
                /\ alive' = FALSE
           ELSE /\ other' = [other EXCEPT !.pc = "done", !.resp = resp,
                                          !.snapshot = file, !.seen = LatestWritten]
                /\ alive' = alive
    /\ UNCHANGED <<config, transportId, transport, file, posts, queue>>

\* ------------------------------------------------------------------ Spec
\* The pipeline: concurrent POST /trace requests, their relays and saves, and
\* a client reading the log back, for a server open to all origins.  The
\* payloads and the client of its requests: every id and timestamp, one
\* payload the Scheme rejects for its shape and one it rejects for its
\* missing id, from one client behind one proxy.

SpecPayloads ==
    {p \in Payloads : /\ p.host = "spoofed.example"
                      /\ p.meta = "malformed" => (p.id = "a" /\ p.timestamp = Undefined)
                      /\ p.id = Undefined => p.timestamp = Undefined}

Init == InitOf({CORS_ALL_HOSTS_ENABLED}, {FileAbsent, FileOf(<<>>)})

PostTrace ==
    /\ Len(posts) < MaxPost
    /\ PostTraceOf(SpecPayloads, {"203.0.113.7"}, {"10.0.0.5"}, {Undefined}, {TRUE},
                   RelayModes(transportId), {"ok", "throws"}, {"ok"})

RelayDone == RelayDoneOf({"ok", "throws"})
GetLogsJson == GetLogsJsonOf({Undefined})
GetLogById == GetLogByIdOf({Undefined})

Next ==
    \/ PostTrace
    \/ RelayDone
    \/ StoreBegin
    \/ StoreWrite
    \/ GetLogsJson
    \/ GetLogById
    \/ ReadDone

Spec == Init /\ [][Next]_vars

\* ----------------------------------------------------------- SpecRequest
\* One request, of any route, with any payload, client, origin and transport
\* behaviour, on a server of any config, from the construction of the server
\* to the last callback of the request.  The
\* log file is absent, unreadable, empty or holds a record an earlier run
\* left.

StoredRecords == [id : Ids, host : {"10.0.0.5"}, timestamp : {Now}]
RequestFiles ==
    {FileAbsent, FileCorrupt, FileOf(<<>>)} \cup {FileOf(<<r>>) : r \in StoredRecords}

\* The configs a Server is constructed with: cors a list or left out, the
\* transport left out, known or unknown.
RequestConfigs ==
    [cors : CorsConfigs \cup {NoCorsList},
     transport : TransportConfigs \cup {UnknownTransportId}]

\* Before new Server(config).
InitRequest ==
    /\ config \in RequestConfigs
    /\ transportId = Undefined
    /\ transport = NoTransport
    /\ file \in RequestFiles
    /\ posts = <<>>
    /\ other = NoRequest
    /\ queue = <<>>
    /\ alive = TRUE

\* The server is constructed and no request has arrived yet.
Idle == transport # NoTransport /\ posts = <<>> /\ other = NoRequest

AnyPostTrace ==
    /\ Idle
    /\ PostTraceOf(Payloads, ForwardedFor, RemoteAddress, Origins, BOOLEAN,
                   RelayModes(transportId), {"ok", "throws"}, SendModes)

AnyRelayDone == RelayDoneOf({"ok", "throws"})
AnyGetIndex == Idle /\ GetIndexOf(Origins)
AnyGetLogsJson == Idle /\ GetLogsJsonOf(Origins)
AnyGetLogById == Idle /\ GetLogByIdOf(Origins)
AnyGetInfo == Idle /\ GetInfoOf(Origins)
AnyGetTracer ==
    /\ Idle
    /\ GetTracerOf(Payloads, ForwardedFor, RemoteAddress, Origins,
                   RelayModes(transportId), {"ok", "throws"}, SendModes)
AnyPreflight == Idle /\ PreflightOf(Origins)

NextRequest ==
    \/ Construct
    \/ AnyPostTrace
    \/ AnyRelayDone
    \/ StoreBegin
    \/ StoreWrite
    \/ AnyGetIndex
    \/ AnyGetLogsJson
    \/ AnyGetLogById
    \/ AnyGetInfo
    \/ AnyGetTracer
    \/ AnyPreflight
    \/ ReadDone

SpecRequest == InitRequest /\ [][NextRequest]_vars

\* ------------------------------------------------------------ properties

\* The requests received so far.
Requests == {posts[i] : i \in DOMAIN posts} \cup {other}

\* The read routes, answered.
Listed == other.route = "GET /logs.json" /\ other.pc = "done"
Fetched == other.route = "GET /logs/:id.json" /\ other.pc = "done"

\* The log file held no entry of the requested id when it was read.
NoEntry ==
    \A k \in DOMAIN LoadAll(other.snapshot) : LoadAll(other.snapshot)[k].id # other.param

\* An error message that references the id.
Names(message, id) == \E k \in DOMAIN message : message[k] = id

\* C1: a POST /trace whose payload the Scheme rejects is answered with the
\* error envelope: status 500, httpStatus 500 and a non-null error, never the
\* success body.  (Violated: trace() hands the failure to the continuation
\* of the route, which answers 200 whatever its argument.)
C1_RejectedPayloadIsAnError ==
    \A i \in DOMAIN posts :
        posts[i].scheme = "threw" =>
            /\ posts[i].resp.status = 500
            /\ posts[i].resp.httpStatus = 500
            /\ posts[i].resp.error # NullError

\* C2: a POST /trace whose payload passes validation and whose relay did not
\* fail is answered with the acknowledgment of its record (status 200, error
\* null, the record's id) at every stage and outcome of the save, whether
\* the callback ran inside transport.trace or later.  (Violated: a save that
\* throws inside a synchronous callback is caught by trace(), and the
\* answer carries a null id.)
C2_AckWhateverTheSave ==
    \A i \in DOMAIN posts :
        (posts[i].scheme = "passed" /\ posts[i].relay # "threw") =>
            /\ posts[i].resp.status = 200
            /\ posts[i].resp.httpStatus = 200
            /\ posts[i].resp.error = NullError
            /\ posts[i].resp.id = posts[i].record.id

\* C3: a GET /logs.json that reads the log file after the writes of
\* concurrently received POST /trace requests were completed lists a record
\* of each of their ids, in every interleaving of the relay callbacks and
\* the writes.
C3_WrittenIdsAreListed ==
    Listed =>
        /\ \A r \in other.seen :
              /\ other.resp.status = 200
              /\ \E k \in DOMAIN other.resp.body : other.resp.body[k].id = r.id
        /\ Len(other.resp.body) >= Cardinality({r.id : r \in other.seen})

\* Two POSTs of distinct ids, written in the order opposite to their
\* arrival, and both listed.
C3_Witness ==
    /\ Listed
    /\ Len(posts) = 2
    /\ posts[1].record.id # posts[2].record.id
    /\ posts[1].wrote = 2 /\ posts[2].wrote = 1
    /\ Cardinality(other.seen) = 2
    /\ Len(other.resp.body) = 2

C5_OneEntryPerIdLatestWins ==
    Listed =>
        /\ \A k, l \in DOMAIN other.resp.body :
              other.resp.body[k].id = other.resp.body[l].id => k = l
        /\ \A r \in other.seen : \E k \in DOMAIN other.resp.body : other.resp.body[k] = r
        /\ \A k \in DOMAIN other.resp.body : other.resp.body[k] \in other.seen

\* Two POSTs of one id and different records, both written, and one entry
\* listed: the record written last.
C5_Witness ==
    /\ Listed
    /\ Len(posts) = 2
    /\ posts[1].record.id = posts[2].record.id
    /\ posts[1].record # posts[2].record
    /\ posts[1].wrote = 1 /\ posts[2].wrote = 2
    /\ other.resp.body = <<posts[2].record>>

\* C6: GET /logs.json, when the log file does not exist, answers 200 with an
\* empty array.  (Violated: the route hands fs.readFile's error to the error
\* handler.)
C6_AbsentFileListsNothing ==
    (Listed /\ ~other.snapshot.exists) =>
        /\ other.resp.status = 200
        /\ other.resp.kind = "json"
        /\ other.resp.error = NullError
        /\ other.resp.body = <<>>

\* C7, as claimed: GET /logs/<id>.json of an id without entry, the log file
\* absent, empty or holding other ids, answers with an error that references
\* the id, and never with 200.  (Violated: with the file absent the error is
\* fs.readFile's, which names the file.)
C7_MissingIdIsNamed ==
    (Fetched /\ NoEntry) =>
        /\ other.resp.status # 200
        /\ other.resp.httpStatus # 200
        /\ Names(other.resp.error, other.param)

\* C7, amended: GET /logs/<id>.json of an id without entry never answers with
\* 200 but with the 500 envelope, whose error references the id when the log
\* file exists (empty or holding other ids).
C7_MissingIdIsAnError ==
    (Fetched /\ NoEntry) =>
        /\ other.resp.status = 500
        /\ other.resp.httpStatus = 500
        /\ other.resp.error # NullError
        /\ other.snapshot.exists => Names(other.resp.error, other.param)

\* An id fetched from a log file that holds another id only.
C7_Witness ==
    /\ Fetched /\ NoEntry
    /\ Len(other.snapshot.logs) = 1
    /\ Names(other.resp.error, other.param)

\* C8: for GET /logs/<id>.json, the answer to an id absent from a readable
\* log file differs in status or httpStatus from the answer of the route when
\* the file cannot be read.  (Violated: both are the 500 envelope of the
\* error handler and differ in the message only.)
C8_NotFoundIsNotUnavailable ==
    (Fetched /\ other.snapshot.exists /\ NoEntry) =>
        LET unavailable == LogByIdCallback(FileAbsent, other.param, RemLogHeaders)
        IN  \/ other.resp.status # unavailable.status
            \/ other.resp.httpStatus # unavailable.httpStatus

\* C9, as claimed: the record handed to the transport has the host the
\* server observed: x-forwarded-for when the header is present, else the
\* remote address.  (Violated: a present but empty header is skipped.)
C9_HostIsForwardedForIfPresent ==
    \A i \in DOMAIN posts :
        posts[i].relay # "none" =>
            posts[i].record.host =
                IF posts[i].xff # Undefined THEN posts[i].xff ELSE posts[i].remote

\* C9, amended: the record handed to the transport has the host the server
\* observed: x-forwarded-for when the header is present and not empty, else
\* the remote address; the host the payload names changes nothing.
C9_HostIsServerObserved ==
    \A i \in DOMAIN posts :
        posts[i].relay # "none" =>
            /\ posts[i].record.host =
                  IF posts[i].xff \notin {Undefined, ""}
                  THEN posts[i].xff ELSE posts[i].remote
            /\ \A h \in PayloadHosts :
                  Trace([posts[i].payload EXCEPT !.host = h], posts[i].xff,
                        posts[i].remote, "sync", "ok", "ok").record.host
                     = posts[i].record.host

\* A payload that names a host of its own, relayed with the proxy's header
\* as host.
C9_Witness ==
    \E i \in DOMAIN posts :
        /\ posts[i].relay # "none"
        /\ posts[i].payload.host = "spoofed.example"
        /\ posts[i].xff = "203.0.113.7"
        /\ posts[i].record.host = "203.0.113.7"

\* C10: every response carries the headers X-RemLog-Client and
\* X-RemLog-Server-Version.  (Violated: the middleware that sets them is the
\* last of the chain, and a request that cors or a body parser ends never
\* reaches it.)
C10_EveryResponseHasTheHeaders ==
    \A r \in Requests :
        r.resp.kind # "none" => RemLogHeaders \subseteq r.resp.headers

\* C11: every error of a request is caught and answered with the 500
\* envelope, the log file whose content cannot be parsed included: no read
\* request is left without a response by an exception nobody catches.
\* (Violated: JSON.parse runs inside the callback of fs.readFile, outside of
\* any try and of Express' own; on a file that does not parse it throws, the
\* request is never answered and the exception is the process's.)
C11_EveryFaultIsAnswered ==
    \A r \in Requests :
        /\ r.pc # "lost"
        /\ (r.pc = "done" /\ r.resp.error # NullError) =>
              (r.resp.status = 500 /\ r.resp.httpStatus = 500)

\* Whether the Scheme accepts the payload of a request, once trace() has set
\* its host and timestamp.
Accepted(r) == Trace(r.payload, r.xff, r.remote, "sync", "ok", "ok").validated

\* The GET /tracer.jpg requests that reached the route handler.
Tracers == {r \in Requests : r.route = "GET /tracer.jpg" /\ r.mw = "route"}

\* C12: a GET /tracer.jpg whose query is the URL-encoded JSON of a payload
\* that passes validation is ingested, its record relayed to the transport,
\* and answered with status 200, an image content type and the pixel.
\* (Violated: the route parses req.query, which Express has made an object;
\* its text is "[object Object]", JSON.parse throws, trace() is never called
\* and the answer is the 500 envelope.)
C12_ValidTracerIsIngested ==
    \A r \in Tracers :
        Accepted(r) =>
            /\ r.relay \in {"pending", "done"}
            /\ r.resp.status = 200
            /\ r.resp.kind = "image"
            /\ "Content-Type" \in r.resp.headers

C20_ContinuationCalledOnce ==
    \A r \in Requests :
        r.scheme # "none" => r.calls = 1

\* C14: the constructor resolves the configured transport id, the console
\* transport's when none is configured, to one instance; for a known id the
\* construction completes, and no request handler replaces the instance; for
\* an unknown id the construction fails, before any request is served.
\* (Violated: the constructor calls getTransportNameFromId, which Server.js
\* neither defines nor imports, and this.config.cors.join, which a config
\* without cors list does not have; either throws before the transport is
\* resolved, whatever the id.)
C14_TransportResolvedAtConstruction ==
    /\ transportId \in KnownTransportIds =>
          /\ alive \/ Requests # {NoRequest}
          /\ transport # NoTransport
          /\ transport.id = transportId
    /\ transportId = UnknownTransportId =>
          /\ transport = NoTransport
          /\ ~alive
          /\ Requests = {NoRequest}
    /\ config.transport = Undefined =>
          transportId \in {Undefined, ConsoleTransportId}

\* A value that is neither null nor undefined.
Defined(v) == v \notin {Null, Undefined}

\* C15: every record trace() hands to transport.trace and to
\* saveTraceToLock has an id, a host and a timestamp, for every payload and
\* every client, a client without x-forwarded-for header and without remote
\* address included.  (Violated: the host is the header or the remote
\* address, and undefined with neither; nothing in trace() checks it.)
C15_RecordsAreComplete ==
    /\ \A r \in Requests :
          r.relay # "none" =>
              Defined(r.record.id) /\ Defined(r.record.host) /\ Defined(r.record.timestamp)
    /\ \A k \in DOMAIN queue :
          /\ Defined(queue[k].record.id)
          /\ Defined(queue[k].record.host)
          /\ Defined(queue[k].record.timestamp)

\* GET /, answered by the callback of its fs.readFile.
Indexed == other.route = "GET /" /\ other.mw = "route" /\ other.pc = "done"

\* C16: GET / while the log file does not exist renders the index with an
\* empty list of logs: status 200, no error.
C16_IndexOfAbsentFileIsEmpty ==
    (Indexed /\ ~other.snapshot.exists) =>
        /\ other.resp.status = 200
        /\ other.resp.kind = "html"
        /\ other.resp.error = NullError
        /\ other.resp.body = <<>>
        /\ alive

\* GET / answered from a log file that does not exist.
C16_Witness ==
    /\ Indexed
    /\ file = FileAbsent
    /\ other.snapshot = FileAbsent
    /\ other.resp.status = 200
    /\ other.resp.kind = "html"

\* C17: at most one write of the log file is in progress at any time: the
\* saves of concurrently handled trace requests go through the store's
\* single writer, one after the other.
C17_OneWriteAtATime ==
    /\ Cardinality(Writing) <= 1
    /\ \A k \in DOMAIN queue :
          posts[queue[k].req].save = "writing" => k = 1

\* The saves of two requests accepted, the first being written while the
\* second waits.
C17_Witness ==
    /\ Len(queue) = 2
    /\ posts[queue[1].req].save = "writing"
    /\ posts[queue[2].req].save = "queued"

\* C18: a record is persisted only from the completion callback of its own
\* relay: no save without a payload the Scheme accepted and a relay that
\* completed, the record saved is the record relayed, and a relay that has
\* not completed, or threw, leaves the record unsaved.
C18_PersistFollowsRelay ==
    /\ \A i \in DOMAIN posts :
          /\ posts[i].save # "none" =>
                (posts[i].scheme = "passed" /\ posts[i].relay = "done")
          /\ posts[i].relay # "done" =>
                (posts[i].save = "none" /\ posts[i].wrote = 0)
    /\ \A k \in DOMAIN queue :
          /\ posts[queue[k].req].relay = "done"
          /\ queue[k].record = posts[queue[k].req].record

\* Two requests: the relay of the first has not completed and its record is
\* not saved, the relay of the second completed and its record is written.
C18_Witness ==
    /\ Len(posts) = 2
    /\ posts[1].relay = "pending" /\ posts[1].save = "none"
    /\ posts[2].relay = "done" /\ posts[2].save = "written"
    /\ file = FileOf(<<posts[2].record>>)

\* C19: a payload the Scheme rejects has no effect on the transport or the
\* store: it is not relayed and not saved, and the request leaves the log
\* file and the store's queue as they were.
C19_RejectedPayloadHasNoEffect ==
    /\ [](\A i \in DOMAIN posts :
             posts[i].scheme = "threw" =>
                 /\ posts[i].relay = "none"
                 /\ posts[i].save = "none"
                 /\ posts[i].wrote = 0
                 /\ \A k \in DOMAIN queue : queue[k].req # i)
    /\ [][(/\ Len(posts') = Len(posts) + 1
           /\ posts'[Len(posts')].scheme = "threw")
              => (file' = file /\ queue' = queue)]_vars

\* A POST /trace the Scheme rejected for its missing id, answered, the log
\* file holding what it held.
C19_Witness ==
    \E i \in DOMAIN posts :
        /\ posts[i].route = "POST /trace"
        /\ posts[i].scheme = "threw"
        /\ posts[i].payload.id = Undefined
        /\ posts[i].payload.meta = "wellformed"
        /\ posts[i].resp.status = 200
        /\ file \in {FileOf(<<r>>) : r \in StoredRecords}
        /\ queue = <<>>

====
